---------------------------- MODULE Spec2Model ----------------------------
(***************************************************************************)
(* A model of libavfilter/vf_hue.c: the hue/saturation filter.             *)
(*                                                                         *)
(* The state is the filter's private HueContext, the position of the       *)
(* filter in its init / config_props / start_frame / draw_slice cycle, the *)
(* output picture of the frame being drawn and a record of the last call.  *)
(*                                                                         *)
(* Numbers.  hue_deg is an integer number of degrees, hue an integer       *)
(* number of milliradians, saturation an integer; all angles of the model  *)
(* are multiples of a quarter turn, where sin and cos are exactly -1, 0 or *)
(* 1, so that rint(sin(hue) * (1 << 16) * saturation) is exact.  The two   *)
(* non-finite doubles an expression can evaluate to, NAN and +infinity,    *)
(* are the values NaN and Inf.                                             *)
(*                                                                         *)
(* Memory.  A char* or AVExpr* field is NULL or an object with a `live'    *)
(* flag; a field holding an object that is not live is a dangling pointer. *)
(* The record of a call says whether it read a freed object (uaf) or freed *)
(* one twice (dfree).                                                      *)
(***************************************************************************)
EXTENDS Integers, Sequences, FiniteSets, TLC

VARIABLES hue,      \* HueContext (ctx->priv)
          inlink,   \* the input link: w, h
          pc,       \* where the filter is in its life cycle
          pic,      \* the frame in flight: its row ranges and output planes
          last      \* the last call: operation, return value, return site

vars == <<hue, inlink, pc, pic, last>>

---------------------------------------------------------------------------
(* Bounds of the model. *)

MaxFrames == 3      \* frames started after config_props
MaxH      == 2      \* inlink->h is in 1..MaxH
MaxW      == 4      \* inlink->w

---------------------------------------------------------------------------
(* Constants of the program. *)

HUE_DEFAULT_VAL == 0
SAT_DEFAULT_VAL == 1
SAT_MIN_VAL == -10
SAT_MAX_VAL == 10

AVERROR_EINVAL == -22
AVERROR_ENOSYS == -38
AVERROR_ENOMEM == -12
AVERROR_OPTION_NOT_FOUND == -1414549496

INT32_MIN == -2147483647 - 1

\* NAN (TS2D, TS2T, config_props) and +infinity, outside every finite value
\* of the model.
NaN == 1000001
Inf == 1000002
AV_NOPTS_VALUE == 1000003

IsNaN(x) == x = NaN
IsFinite(x) == x # NaN /\ x # Inf

\* a < b on doubles: false when either side is NAN.
FLt(a, b) ==
    /\ ~IsNaN(a) /\ ~IsNaN(b)
    /\ a # Inf
    /\ (b = Inf \/ a < b)

NULL == [null |-> TRUE]
IsNull(p) == p = NULL

\* av_strdup / a compiled AVExpr: a fresh live object.
NewStr(text) == [text |-> text, live |-> TRUE]
NewExpr(text) == [src |-> text, live |-> TRUE]
\* av_free / av_expr_free of an object that other pointers still name.
Freed(p) == IF IsNull(p) THEN p ELSE [p EXCEPT !.live = FALSE]
IsDangling(p) == ~IsNull(p) /\ ~p.live

---------------------------------------------------------------------------
(* The expression engine (libavutil/eval.c), as far as the filter uses it. *)

BAD_EXPR == "("

\* The well formed expression texts of the model.
ExprTexts == {"90*n", "PI", "15*n-15", "t", "1/0"}

\* av_expr_parse succeeds on a well formed expression over var_names.
Compiles(text) == text \in ExprTexts

\* av_expr_eval(e, var_values, NULL).
av_expr_eval(e, vv) ==
    CASE e.src = "90*n"    -> 90 * vv.N
      [] e.src = "PI"      -> 3142
      [] e.src = "15*n-15" -> 15 * vv.N - 15
      [] e.src = "t"       -> vv.T
      [] e.src = "1/0"     -> Inf

---------------------------------------------------------------------------
(* compute_sin_and_cos *)

\* hue_deg * M_PI / 180, in milliradians.
Deg2Rad(d) == IF IsFinite(d) THEN (d * 31416 + 900) \div 1800 ELSE NaN

\* The quarter turn an angle in milliradians lies on.
Quadrant(x) == ((x * 10 + 7854) \div 15708) % 4

Sin(x) == IF ~IsFinite(x) THEN NaN
          ELSE CASE Quadrant(x) = 0 -> 0
                 [] Quadrant(x) = 1 -> 1
                 [] Quadrant(x) = 2 -> 0
                 [] Quadrant(x) = 3 -> -1

Cos(x) == IF ~IsFinite(x) THEN NaN
          ELSE CASE Quadrant(x) = 0 -> 1
                 [] Quadrant(x) = 1 -> 0
                 [] Quadrant(x) = 2 -> -1
                 [] Quadrant(x) = 3 -> 0

\* (int32_t)rint(trig * (1 << 16) * saturation).  The conversion of a NAN to
\* int32_t is undefined: a build gives `nanint', which is INT32_MIN on some
\* and 0 on others.
Rint32(trig, sat, nanint) ==
    IF IsNaN(trig) \/ IsNaN(sat) THEN nanint
    ELSE trig * 65536 * sat

NanInts == {INT32_MIN, 0}

\* compute_sin_and_cos without the scaling by the saturation.
compute_sin_and_cos_unscaled(h) ==
    { [h EXCEPT !.hue_sin = Rint32(Sin(h.hue), 1, nanint),
                !.hue_cos = Rint32(Cos(h.hue), 1, nanint)] :
        nanint \in IF IsNaN(h.hue) THEN NanInts ELSE {0} }

compute_sin_and_cos(h) ==
    { [h EXCEPT !.hue_sin = Rint32(Sin(h.hue), h.saturation, nanint),
                !.hue_cos = Rint32(Cos(h.hue), h.saturation, nanint)] :
        nanint \in IF IsNaN(h.hue) \/ IsNaN(h.saturation)
                   THEN NanInts ELSE {0} }

---------------------------------------------------------------------------
(* Option texts.  An argument text is no text at all (args == NULL), the   *)
(* named syntax (it holds a '='): a list of key=value pairs, or the        *)
(* compatibility syntax: the tokens sscanf sees, floats and single chars.  *)

Opt(k, v) == [key |-> k, val |-> v]
F(x) == [k |-> "f", v |-> x]
Ch(c) == [k |-> "c", v |-> c]

NoArgs == [form |-> "null"]
Named(opts) == [form |-> "named", opts |-> opts]
Flat(toks) == [form |-> "flat", toks |-> toks]

\* hue_options: the field each key sets.
OptionField(key) ==
    CASE key = "h" -> "hue_deg_expr"
      [] key = "H" -> "hue_expr"
      [] key = "s" -> "saturation_expr"
      [] OTHER     -> "none"

\* av_set_options_string(hue, args, "=", ":"): the pairs are set in order with
\* av_opt_set, which frees the string the field holds and duplicates the
\* value; the first key that is no option ends the call with an error, the
\* pairs before it staying set.  `satfreed': the string saturation_expr held
\* at the call was freed.
RECURSIVE av_set_options_string(_, _, _)
av_set_options_string(h, opts, satfreed) ==
    IF opts = <<>> THEN [hue |-> h, ret |-> 0, satfreed |-> satfreed]
    ELSE LET o == Head(opts)
             f == OptionField(o.key)
         IN IF f = "none"
            THEN [hue |-> h, ret |-> AVERROR_OPTION_NOT_FOUND, satfreed |-> satfreed]
            ELSE av_set_options_string(
                     [h EXCEPT ![f] = NewStr(o.val)], Tail(opts),
                     satfreed \/ (f = "saturation_expr" /\ ~IsNull(h[f])))

ExprField(attr) == attr \o "_expr"
PexprField(attr) == attr \o "_pexpr"

\* PARSE_EXPRESSION(attr, name) on a call in progress `st':
\*   st.hue, st.mem   the context and the memory record so far
\*   st.old           the old_*_expr and old_*_pexpr locals of set_options
\*   st.kept          the attrs whose hue->attr_expr is still old_attr_expr
\*   st.ret, st.site  set once the call has returned
\* Reading a freed string is undefined: the parse may see the old text or
\* anything else, so it may succeed on the old text or fail.
ParseOutcome(st, attr, ok) ==
    LET h     == st.hue
        str   == h[ExprField(attr)]
        ostr  == st.old[ExprField(attr)]
        opex  == st.old[PexprField(attr)]
        m1    == [st.mem EXCEPT !.uaf = @ \/ IsDangling(str)]
    IN IF ~ok
       THEN [st EXCEPT !.hue = [h EXCEPT ![ExprField(attr)]  = ostr,
                                         ![PexprField(attr)] = opex],
                       !.mem = m1,
                       !.ret = AVERROR_EINVAL,
                       !.site = "parse_" \o attr]
       ELSE IF ~IsNull(opex)
       THEN \* av_free(old_attr_expr); av_expr_free(old_attr_pexpr)
            [st EXCEPT !.hue = [h EXCEPT
                                  ![PexprField(attr)] = NewExpr(str.text),
                                  ![ExprField(attr)]  =
                                      IF attr \in st.kept THEN Freed(str) ELSE str],
                       !.mem = [m1 EXCEPT !.dfree = @ \/ IsDangling(ostr)],
                       !.old = [st.old EXCEPT ![ExprField(attr)] = Freed(ostr),
                                              ![PexprField(attr)] = Freed(opex)]]
       ELSE [st EXCEPT !.hue = [h EXCEPT ![PexprField(attr)] = NewExpr(str.text)],
                       !.mem = m1]

PARSE_EXPRESSION(st, attr) ==
    LET str == st.hue[ExprField(attr)]
    IN IF st.ret # 0 \/ IsNull(str) THEN {st}
       ELSE IF IsDangling(str)
       THEN {ParseOutcome(st, attr, ok) : ok \in {Compiles(str.text), FALSE}}
       ELSE {ParseOutcome(st, attr, Compiles(str.text))}

Result(h, m, ret, site) == [hue |-> h, mem |-> m, ret |-> ret, site |-> site]

\* set_options, the named options syntax (the branch with a '=').
SetOptionsNamed(h, m, opts) ==
    LET old == [hue_expr         |-> h.hue_expr,
                hue_deg_expr     |-> h.hue_deg_expr,
                saturation_expr  |-> h.saturation_expr,
                hue_pexpr        |-> h.hue_pexpr,
                hue_deg_pexpr    |-> h.hue_deg_pexpr,
                saturation_pexpr |-> h.saturation_pexpr]
        r   == av_set_options_string(
                   [h EXCEPT !.hue_expr = NULL, !.hue_deg_expr = NULL], opts, FALSE)
        h1  == r.hue
        restored == [h1 EXCEPT !.hue_expr = old.hue_expr,
                               !.hue_deg_expr = old.hue_deg_expr]
    IN IF r.ret < 0 THEN {Result(h1, m, r.ret, "options")}
       ELSE IF ~IsNull(h1.hue_expr) /\ ~IsNull(h1.hue_deg_expr)
       THEN {Result(restored, m, AVERROR_EINVAL, "incompatible")}
       ELSE
         LET none == IsNull(h1.hue_expr) /\ IsNull(h1.hue_deg_expr)
             st0  == [hue  |-> IF none THEN restored ELSE h1,
                      mem  |-> m,
                      old  |-> [old EXCEPT !.saturation_expr =
                                   IF r.satfreed THEN Freed(@) ELSE @],
                      kept |-> (IF none THEN {"hue", "hue_deg"} ELSE {})
                               \cup (IF h1.saturation_expr = h.saturation_expr
                                        /\ ~r.satfreed
                                     THEN {"saturation"} ELSE {}),
                      ret  |-> 0,
                      site |-> "ok"]
             s1 == PARSE_EXPRESSION(st0, "hue_deg")
             s2 == UNION {PARSE_EXPRESSION(st, "hue") : st \in s1}
             s3 == UNION {PARSE_EXPRESSION(st, "saturation") : st \in s2}
         IN UNION { IF st.ret # 0
                    THEN {Result(st.hue, st.mem, st.ret, st.site)}
                    ELSE {Result(hc, st.mem, 0, "ok") :
                            hc \in compute_sin_and_cos(
                                      [st.hue EXCEPT !.flat_syntax = 0])}
                  : st \in s3 }

\* sscanf(args, "%f%c%f%c", &hue->hue_deg, &c1, &hue->saturation, &c2):
\* each conversion stores as soon as it matches; n counts the conversions.
Sscanf(h, toks) ==
    LET is(i, kind) == Len(toks) >= i /\ toks[i].k = kind
        n == IF ~is(1, "f") THEN 0
             ELSE IF Len(toks) < 2 THEN 1
             ELSE IF ~is(3, "f") THEN 2
             ELSE IF Len(toks) < 4 THEN 3
             ELSE 4
        h1 == IF n >= 1 THEN [h EXCEPT !.hue_deg = toks[1].v] ELSE h
        h2 == IF n >= 3 THEN [h1 EXCEPT !.saturation = toks[3].v] ELSE h1
    IN [hue |-> h2, n |-> n, c1 |-> IF n >= 2 THEN toks[2].v ELSE ""]

\* set_options, the compatibility h:s syntax.
SetOptionsFlat(h, m, toks) ==
    LET r  == Sscanf(h, toks)
        h1 == r.hue
    IN IF r.n # 1 /\ (r.n # 3 \/ r.c1 # ":")
       THEN {Result(h1, m, AVERROR_EINVAL, "syntax")}
       ELSE IF FLt(h1.saturation, SAT_MIN_VAL) \/ FLt(SAT_MAX_VAL, h1.saturation)
       THEN {Result(h1, m, AVERROR_EINVAL, "range")}
       ELSE {Result(hc, m, 0, "ok") :
               hc \in compute_sin_and_cos(
                         [h1 EXCEPT !.hue = Deg2Rad(h1.hue_deg),
                                    !.flat_syntax = 1])}

\* set_options(ctx, args): the set of results the call can have.
set_options(h, m, args) ==
    CASE args.form = "named" -> SetOptionsNamed(h, m, args.opts)
      [] args.form = "flat"  -> SetOptionsFlat(h, m, args.toks)
      [] OTHER -> {Result(hc, m, 0, "ok") : hc \in compute_sin_and_cos(h)}

---------------------------------------------------------------------------
(* process_chrominance, one sample pair.  The int32_t values of the        *)
(* rotation are kept as two limbs, hi * 2^16 + lo with 0 <= lo < 2^16, so  *)
(* that a value too wide for int32_t can be told from one that fits.       *)

Wide(hi, lo) == [hi |-> hi, lo |-> lo]
WideOf(x) == Wide(x \div 65536, x % 65536)
\* c * u for an int32_t c and a centred sample u.
WideMul(c, u) ==
    LET low == (c % 65536) * u
    IN Wide((c \div 65536) * u + low \div 65536, low % 65536)
WideAdd(a, b) == Wide(a.hi + b.hi + (a.lo + b.lo) \div 65536, (a.lo + b.lo) % 65536)
WideSub(a, b) == Wide(a.hi - b.hi + (a.lo - b.lo) \div 65536, (a.lo - b.lo) % 65536)
FitsInt32(a) == -32768 <= a.hi /\ a.hi <= 32767
\* a >> 16
WideShr16(a) == a.hi

av_clip_uint8_c(a) == IF a < 0 THEN 0 ELSE IF a > 255 THEN 255 ELSE a

NoClip(a) == a

\* Lines 290-300 for the samples usrc[i], vsrc[i]: new_u, new_v and whether
\* every value computed on the way fits an int32_t.
RotateSample(usrc, vsrc, c, s) ==
    LET u == usrc - 128
        v == vsrc - 128
        bias == WideAdd(WideOf(32768), Wide(128, 0))   \* (1 << 15) + (128 << 16)
        cu == WideMul(c, u)
        sv == WideMul(s, v)
        su == WideMul(s, u)
        cv == WideMul(c, v)
        du == WideSub(cu, sv)
        dv == WideAdd(su, cv)
        eu == WideAdd(du, WideOf(32768))
        ev == WideAdd(dv, WideOf(32768))
        fu == WideAdd(eu, Wide(128, 0))
        fv == WideAdd(ev, Wide(128, 0))
    IN [new_u |-> WideShr16(fu),
        new_v |-> WideShr16(fv),
        fits  |-> \A x \in {cu, sv, su, cv, du, dv, eu, ev, fu, fv, bias} : FitsInt32(x)]

\* process_chrominance without av_clip_uint8_c: the sample is stored as is.
process_chrominance_unclipped(usrc, vsrc, c, s) ==
    LET r == RotateSample(usrc, vsrc, c, s)
    IN [udst |-> NoClip(r.new_u), vdst |-> NoClip(r.new_v),
        new_u |-> r.new_u, new_v |-> r.new_v, fits |-> r.fits]

\* process_chrominance that leaves the samples centred on 0 (the 128 << 16
\* term forgotten).
process_chrominance_centred(usrc, vsrc, c, s) ==
    LET r == RotateSample(usrc, vsrc, c, s)
    IN [udst |-> av_clip_uint8_c(r.new_u - 128), vdst |-> av_clip_uint8_c(r.new_v - 128),
        new_u |-> r.new_u, new_v |-> r.new_v, fits |-> r.fits]

\* Lines 288-305 for one sample pair: the samples stored at lines 303-304.
process_chrominance(usrc, vsrc, c, s) ==
    LET r == RotateSample(usrc, vsrc, c, s)
    IN [udst |-> av_clip_uint8_c(r.new_u), vdst |-> av_clip_uint8_c(r.new_v),
        new_u |-> r.new_u, new_v |-> r.new_v, fits |-> r.fits]

---------------------------------------------------------------------------
(* The inputs: argument texts, pixel formats, timestamps. *)

\* Named texts: at most one h, one H and one s pair, in this order, each
\* with a well formed or a malformed expression, then possibly a key that
\* is no option.
OptChoices(key, text) == {<<>>, <<Opt(key, text)>>, <<Opt(key, BAD_EXPR)>>}

NamedArgs ==
    { Named(a \o b \o c \o d) :
        a \in OptChoices("h", "90*n"), b \in OptChoices("H", "PI"),
        c \in OptChoices("s", "15*n-15"), d \in {<<>>, <<Opt("x", "1")>>} }
    \ {Named(<<>>)}

\* A few named texts, for the runs that are about frames.
FrameArgs ==
    { Named(<<Opt("h", "90*n")>>), Named(<<Opt("s", "15*n-15")>>),
      Named(<<Opt("s", "t")>>) }

FlatArgs ==
    { Flat(<<F(0), Ch(":"), F(2)>>),            \* "0:2"
      Flat(<<F(90)>>),                          \* "90"
      Flat(<<F(90), Ch(":"), F(20)>>),          \* "90:20"
      Flat(<<F(90), Ch(":"), Ch("x")>>),        \* "90:x"
      Flat(<<F(90), Ch(":"), F(2), Ch("x")>>),  \* "90:2x"
      Flat(<<F(90), Ch(","), F(2)>>),           \* "90,2"
      Flat(<<Ch("x")>>) }                       \* "x"


SliceArgs == {Flat(<<F(0), Ch(":"), F(2)>>), Flat(<<F(90)>>)}

\* query_formats: log2_chroma_w, log2_chroma_h of YUV444P, YUV422P, YUV420P
\* (and YUVA420P), YUV411P, YUV410P, YUV440P.
Formats == {<<0, 0>>, <<1, 0>>, <<1, 1>>, <<2, 0>>, <<2, 2>>, <<0, 1>>}

\* inpic->pts; inlink->time_base is 1/1 and the frame rate is unknown.
Timestamps == {AV_NOPTS_VALUE, 5}
TimeBase == 1

Shr(x, n) == x \div (2 ^ n)

---------------------------------------------------------------------------
(* The filter. *)

\* The record of a call: the operation, what it returned and where.
Call(op, ret, site) == [op |-> op, ret |-> ret, site |-> site]

NoFaults == [uaf |-> FALSE, dfree |-> FALSE]

NoPic == [done |-> 0, cos |-> 0, sin |-> 0, luma |-> <<>>, chroma |-> <<>>]

\* The state at the call of set_options in init: ctx->priv is zeroed,
\* av_opt_set_defaults leaves the three expression texts NULL.
Init ==
    /\ hue = [hue_deg |-> 0, hue |-> HUE_DEFAULT_VAL,
              hue_deg_expr |-> NULL, hue_expr |-> NULL,
              hue_deg_pexpr |-> NULL, hue_pexpr |-> NULL,
              saturation |-> SAT_DEFAULT_VAL,
              saturation_expr |-> NULL, saturation_pexpr |-> NULL,
              hsub |-> 0, vsub |-> 0, hue_sin |-> 0, hue_cos |-> 0,
              flat_syntax |-> 1,
              var_values |-> [N |-> 0, PTS |-> 0, R |-> 0, T |-> 0, TB |-> 0]]
    /\ inlink = [w |-> 0, h |-> 0]
    /\ pc = "init"
    /\ pic = NoPic
    /\ last = Call("none", 0, "ok")

\* init: return set_options(ctx, args); a failed init ends the filter.
InitFilter(args) ==
    /\ pc = "init"
    /\ \E r \in set_options(hue, NoFaults, args) :
         /\ hue' = r.hue
         /\ pc' = IF r.ret = 0 THEN "ready" ELSE "failed"
         /\ last' = Call("init", r.ret, r.site)
    /\ UNCHANGED <<inlink, pic>>

config_props(fmt, w, h) ==
    /\ pc = "ready"
    /\ hue' = [hue EXCEPT !.hsub = fmt[1], !.vsub = fmt[2],
                          !.var_values = [@ EXCEPT !.N = 0, !.TB = TimeBase,
                                                   !.R = NaN]]
    /\ inlink' = [w |-> w, h |-> h]
    /\ pc' = "idle"
    /\ last' = Call("config_props", 0, "ok")
    /\ UNCHANGED pic

\* A process_command that hands every command to set_options.
process_command_any(cmd, args) ==
    /\ pc \in {"idle", "frame"}
    /\ \E r \in set_options(hue, NoFaults, args) :
         /\ hue' = r.hue
         /\ last' = Call(IF cmd = "reinit" THEN "reinit" ELSE "command",
                         r.ret, r.site)
    /\ UNCHANGED <<inlink, pc, pic>>

\* process_command: "reinit" is set_options, anything else is ENOSYS.
process_command(cmd, args) ==
    /\ pc \in {"idle", "frame"}
    /\ IF cmd = "reinit"
       THEN \E r \in set_options(hue, NoFaults, args) :
              /\ hue' = r.hue
              /\ last' = Call("reinit", r.ret, r.site)
       ELSE /\ last' = Call("command", AVERROR_ENOSYS, "enosys")
            /\ UNCHANGED hue
    /\ UNCHANGED <<inlink, pc, pic>>

TS2D(ts) == IF ts = AV_NOPTS_VALUE THEN NaN ELSE ts
TS2T(ts, tb) == IF ts = AV_NOPTS_VALUE THEN NaN ELSE ts * tb

\* av_clip(hue->saturation, SAT_MIN_VAL, SAT_MAX_VAL): av_clip takes ints, and
\* the conversion of an infinite float to int is undefined (INT_MIN on some
\* builds, INT_MAX on others).
av_clip_saturation(v) ==
    IF v = Inf THEN {SAT_MIN_VAL, SAT_MAX_VAL}
    ELSE IF v < SAT_MIN_VAL THEN {SAT_MIN_VAL}
    ELSE IF v > SAT_MAX_VAL THEN {SAT_MAX_VAL}
    ELSE {v}

Resolved(h, fault, evaluated) == [hue |-> h, fault |-> fault, evaluated |-> evaluated]

\* start_frame, lines 338-347: av_expr_eval of a NULL AVExpr is a fault.
EvalSaturation(h) ==
    IF IsNull(h.saturation_expr) THEN {Resolved(h, FALSE, {})}
    ELSE IF IsNull(h.saturation_pexpr) THEN {Resolved(h, TRUE, {})}
    ELSE LET v == av_expr_eval(h.saturation_pexpr, h.var_values)
         IN { Resolved([h EXCEPT !.saturation = c], FALSE, {"saturation"}) :
                c \in IF FLt(v, SAT_MIN_VAL) \/ FLt(SAT_MAX_VAL, v)
                      THEN av_clip_saturation(v) ELSE {v} }

\* start_frame, lines 349-354.
EvalHue(r) ==
    LET h == r.hue
    IN IF r.fault THEN r
       ELSE IF ~IsNull(h.hue_deg_expr)
       THEN IF IsNull(h.hue_deg_pexpr) THEN Resolved(h, TRUE, r.evaluated)
            ELSE LET d == av_expr_eval(h.hue_deg_pexpr, h.var_values)
                 IN Resolved([h EXCEPT !.hue_deg = d, !.hue = Deg2Rad(d)],
                             FALSE, r.evaluated \cup {"hue_deg"})
       ELSE IF ~IsNull(h.hue_expr)
       THEN IF IsNull(h.hue_pexpr) THEN Resolved(h, TRUE, r.evaluated)
            ELSE Resolved([h EXCEPT !.hue = av_expr_eval(h.hue_pexpr, h.var_values)],
                          FALSE, r.evaluated \cup {"hue"})
       ELSE r

\* A frame counter that only counts the frames of the dynamic mode.
CountFrameDynamic(h) ==
    IF h.flat_syntax = 0 THEN [h EXCEPT !.var_values = [@ EXCEPT !.N = @ + 1]] ELSE h

\* var_values[VAR_N] += 1
CountFrame(h) == [h EXCEPT !.var_values = [@ EXCEPT !.N = @ + 1]]

\* start_frame, lines 335-361: the body of if (!hue->flat_syntax).
ResolveDynamic(h, pts) ==
    LET h1 == [h EXCEPT !.var_values =
                  [@ EXCEPT !.T = TS2T(pts, TimeBase), !.PTS = TS2D(pts)]]
    IN UNION { LET r == EvalHue(rs)
               IN IF r.fault THEN {r}
                  ELSE {Resolved(CountFrame(hc), FALSE, r.evaluated) :
                          hc \in compute_sin_and_cos(r.hue)}
             : rs \in EvalSaturation(h1) }

\* A start_frame that resolves whatever the mode is.
ResolveFrameAlways(h, pts) == ResolveDynamic(h, pts)

\* start_frame, lines 334-364: the results of resolving one frame.
ResolveFrame(h, pts) ==
    IF h.flat_syntax = 0 THEN ResolveDynamic(h, pts)
    ELSE {Resolved(CountFrame(h), FALSE, {})}

NewPic(h, lumaH, chromaH) ==
    [done |-> 0, cos |-> h.hue_cos, sin |-> h.hue_sin,
     luma |-> [r \in 0..(lumaH - 1) |-> "none"],
     chroma |-> [r \in 0..(chromaH - 1) |-> <<"none">>]]

\* The rows of a chroma plane of a picture of h rows: -((-h) >> vsub).
ChromaRows(h, vsub) == Shr(h + 2 ^ vsub - 1, vsub)

start_frame(pts) ==
    /\ pc = "idle"
    /\ hue.var_values.N < MaxFrames
    /\ \/ \* ff_get_video_buffer or avfilter_ref_buffer fails
          /\ last' = Call("start_frame", AVERROR_ENOMEM, "enomem")
          /\ UNCHANGED <<hue, inlink, pc, pic>>
       \/ \E r \in ResolveFrame(hue, pts) :
            IF r.fault
            THEN /\ pc' = "crashed"
                 /\ last' = Call("start_frame", 0, "fault")
                 /\ UNCHANGED <<hue, inlink, pic>>
            ELSE /\ hue' = r.hue
                 /\ pic' = NewPic(r.hue, inlink.h, ChromaRows(inlink.h, hue.vsub))
                 /\ pc' = "frame"
                 /\ last' = Call("start_frame", 0, "ok")
                 /\ UNCHANGED inlink

\* draw_slice(inlink, y, h, slice_dir) on the picture p: the results the
\* call can have.  The luma copy and the chroma rotation both run over the
\* height of the whole picture, inlink->h, from row y on.  Rows past the end
\* of a plane are out of bounds, which is undefined: the call may go
\* unnoticed, may overwrite the chroma rows above the slice (the planes of a
\* picture lie one after another), or fault.
\*   luma, chroma   the rows of the planes the call reads and writes
\*   cw, c, s       the width and the coefficients given to process_chrominance
DrawSlice(hc, link, p, y, h) ==
    LET cy == Shr(y, hc.vsub)
        ch == Shr(link.h, hc.vsub)
        lumaRows   == y..(y + link.h - 1)
        chromaRows == cy..(cy + ch - 1)
        oob == \/ \E r \in lumaRows : r >= link.h
               \/ \E r \in chromaRows : r >= ChromaRows(link.h, hc.vsub)
        luma1   == [r \in DOMAIN p.luma |->
                      IF r \in lumaRows THEN "copy" ELSE p.luma[r]]
        chroma1 == [r \in DOMAIN p.chroma |->
                      IF r \in chromaRows
                      THEN <<"rot", hc.hue_cos, hc.hue_sin>>
                      ELSE p.chroma[r]]
        chroma2 == [r \in DOMAIN p.chroma |->
                      IF r < cy THEN <<"raw">> ELSE chroma1[r]]
    IN { [pic |-> IF outcome = "fault" THEN p
                  ELSE [p EXCEPT !.done = y + h, !.luma = luma1,
                                 !.chroma = IF outcome = "ok" THEN chroma1
                                            ELSE chroma2],
          fault |-> outcome = "fault",
          luma |-> lumaRows, chroma |-> chromaRows,
          cw |-> Shr(link.w, hc.hsub), c |-> hc.hue_cos, s |-> hc.hue_sin]
         : outcome \in IF oob THEN {"ok", "overwrite", "fault"} ELSE {"ok"} }

\* The caller hands the rows of a picture over in increasing ranges.
draw_slice(y, h) ==
    /\ pc = "frame"
    /\ y = pic.done
    /\ h \in 1..(inlink.h - y)
    /\ \E r \in DrawSlice(hue, inlink, pic, y, h) :
         /\ pic' = r.pic
         /\ pc' = IF r.fault THEN "crashed"
                  ELSE IF y + h = inlink.h THEN "idle" ELSE "frame"
         /\ last' = Call("draw_slice", 0, IF r.fault THEN "fault" ELSE "ok")
    /\ UNCHANGED <<hue, inlink>>

Commands == {"reinit", "enable"}

\* One step of the filter, its inputs drawn from the given sets.
Step(args, formats, heights, stamps) ==
    \/ \E a \in args : InitFilter(a)
    \/ \E fmt \in formats, h \in heights : config_props(fmt, MaxW, h)
    \/ \E cmd \in Commands, a \in args : process_command(cmd, a)
    \/ \E pts \in stamps : start_frame(pts)
    \/ \E h \in heights : draw_slice(pic.done, h)

\* The resolver under the named texts, on one-row YUV420P pictures.
Next == Step(NamedArgs \cup {NoArgs}, {<<1, 1>>}, {1}, {5})

Spec == Init /\ [][Next]_vars

\* The resolver under the compatibility texts and a few named ones, with and
\* without timestamps.
FrameNext == Step(FlatArgs \cup FrameArgs \cup {NoArgs}, {<<1, 1>>}, {1}, Timestamps)

FrameSpec == Init /\ [][FrameNext]_vars

\* The slice driver under every pixel format and height.
SliceNext == Step(SliceArgs, Formats, 1..MaxH, {5})

SliceSpec == Init /\ [][SliceNext]_vars

\* One sample pair under process_chrominance, for coefficients up to
\* 10 * 2^16 in magnitude: the extremes, the unit, a one-eighth turn and the
\* smallest values, and samples at the ends and the middle of the range.
PixelCoefficients ==
    {-(SAT_MAX_VAL * 65536), -65536, -1, 0, 1, 46341, 65536, SAT_MAX_VAL * 65536}
PixelSamples == {0, 1, 16, 127, 128, 129, 240, 255}

PixelInit ==
    /\ \E c \in PixelCoefficients, s \in PixelCoefficients :
         hue = [hue_deg |-> 0, hue |-> HUE_DEFAULT_VAL,
                hue_deg_expr |-> NULL, hue_expr |-> NULL,
                hue_deg_pexpr |-> NULL, hue_pexpr |-> NULL,
                saturation |-> SAT_DEFAULT_VAL,
                saturation_expr |-> NULL, saturation_pexpr |-> NULL,
                hsub |-> 0, vsub |-> 0, hue_sin |-> s, hue_cos |-> c,
                flat_syntax |-> 1,
                var_values |-> [N |-> 0, PTS |-> 0, R |-> 0, T |-> 0, TB |-> 0]]
    /\ \E u \in PixelSamples, v \in PixelSamples :
         pic = [usrc |-> u, vsrc |-> v]
    /\ inlink = [w |-> 1, h |-> 1]
    /\ pc = "pixel"
    /\ last = Call("none", 0, "ok")

RotatePixel ==
    /\ pc = "pixel"
    /\ pic' = [src |-> pic,
               dst |-> process_chrominance(pic.usrc, pic.vsrc, hue.hue_cos, hue.hue_sin)]
    /\ pc' = "rotated"
    /\ last' = Call("process_chrominance", 0, "ok")
    /\ UNCHANGED <<hue, inlink>>

PixelNext == RotatePixel

PixelSpec == PixelInit /\ [][PixelNext]_vars

\* The commands, under one text of each kind: a compatibility text that is
\* accepted and one that is refused, a named text that is accepted and one
\* that is refused, and no text.
CommandArgs ==
    { Flat(<<F(0), Ch(":"), F(2)>>), Flat(<<F(90), Ch(":"), F(20)>>),
      Named(<<Opt("h", "90*n")>>), Named(<<Opt("s", BAD_EXPR)>>), NoArgs }

CommandNext == Step(CommandArgs, {<<1, 1>>}, {1}, {5})

CommandSpec == Init /\ [][CommandNext]_vars

\* The dynamic mode under saturation expressions inside, below, above and
\* far above the range, and a hue expression.
ClampArgs ==
    { Named(<<Opt("s", "15*n-15")>>), Named(<<Opt("s", "1/0")>>),
      Named(<<Opt("h", "90*n")>>), Named(<<Opt("h", "90*n"), Opt("s", "1/0")>>) }

ClampNext == Step(ClampArgs, {<<1, 1>>}, {1}, {5})

ClampSpec == Init /\ [][ClampNext]_vars

\* uninit: av_opt_free frees the three option strings and sets the fields
\* to NULL, so that the av_free calls that follow are given NULL; the three
\* av_expr_free calls free the compiled expressions.  Freeing what was
\* freed before is a double free.
uninit ==
    /\ pc \in {"ready", "idle", "failed"}
    /\ hue' = [hue EXCEPT !.hue_deg_expr = NULL, !.hue_expr = NULL,
                          !.saturation_expr = NULL,
                          !.hue_deg_pexpr = Freed(@), !.hue_pexpr = Freed(@),
                          !.saturation_pexpr = Freed(@)]
    /\ pc' = "uninit"
    /\ last' = Call("uninit", 0,
                    IF \E f \in {"hue_deg_expr", "hue_expr", "saturation_expr",
                                 "hue_deg_pexpr", "hue_pexpr", "saturation_pexpr"} :
                          IsDangling(hue[f])
                    THEN "double_free" ELSE "ok")
    /\ UNCHANGED <<inlink, pic>>

\* The life of a filter under well formed named texts, from init to uninit.
TeardownArgs ==
    { Named(<<Opt("h", "90*n")>>), Named(<<Opt("H", "PI")>>),
      Named(<<Opt("s", "15*n-15")>>),
      Named(<<Opt("h", "90*n"), Opt("s", "15*n-15")>>),
      Named(<<Opt("H", "PI"), Opt("s", "15*n-15")>>) }

TeardownNext ==
    \/ Step(TeardownArgs, {<<1, 1>>}, {1}, {5})
    \/ uninit

TeardownSpec == Init /\ [][TeardownNext]_vars

\* The rotation of every pair of 8-bit samples with the coefficients a
\* configuration leaves: init with "0:2", "90" or no text, then
\* process_chrominance on one sample pair.
Samples == 0..255

RotationArgs == SliceArgs \cup {NoArgs}

Rotate(u, v) ==
    /\ pc = "ready"
    /\ pic' = [src |-> [usrc |-> u, vsrc |-> v],
               dst |-> process_chrominance(u, v, hue.hue_cos, hue.hue_sin)]
    /\ pc' = "rotated"
    /\ last' = Call("process_chrominance", 0, "ok")
    /\ UNCHANGED <<hue, inlink>>

RotationNext ==
    \/ \E a \in RotationArgs : InitFilter(a)
    \/ /\ pc = "ready"
       /\ \E u \in Samples, v \in Samples : Rotate(u, v)

RotationSpec == Init /\ [][RotationNext]_vars

---------------------------------------------------------------------------
(* What the claims speak of. *)

\* The hue source start_frame resolves from (lines 349-354): the unit and
\* the expression text, and the compiled expression it evaluates.
HueSource(h) ==
    IF ~IsNull(h.hue_deg_expr) THEN <<"h", h.hue_deg_expr.text, h.hue_deg_pexpr>>
    ELSE IF ~IsNull(h.hue_expr) THEN <<"H", h.hue_expr.text, h.hue_pexpr>>
    ELSE <<"none">>

Compiled(h) == <<h.hue_deg_pexpr, h.hue_pexpr, h.saturation_pexpr>>
Texts(h) == <<h.hue_deg_expr, h.hue_expr, h.saturation_expr>>
Coefficients(h) == <<h.hue_cos, h.hue_sin>>

\* The step is a reinit command that returned at one of the sites.
ReinitAt(sites) == last'.op = "reinit" /\ last'.site \in sites

InRange(sat) == ~IsNaN(sat) /\ SAT_MIN_VAL <= sat /\ sat <= SAT_MAX_VAL

\* The filter is set up and running.
Running == pc \in {"ready", "idle", "frame"}

---------------------------------------------------------------------------
(* C1. Configuration rollback: a named reinit whose s expression fails to  *)
(* compile returns an error and leaves saturation, hue, the active hue     *)
(* source and the three compiled expressions as they were before the call. *)
C1_RollbackOnBadSaturation ==
    [][ReinitAt({"parse_saturation"}) =>
          /\ last'.ret < 0
          /\ hue'.saturation = hue.saturation
          /\ hue'.hue = hue.hue
          /\ HueSource(hue') = HueSource(hue)
          /\ Compiled(hue') = Compiled(hue)]_vars

(* C2. A named reinit whose hue expression (h or H) fails to compile while *)
(* a hue source is active returns an error and leaves that hue source      *)
(* active, with the same text and compiled expression.                     *)
C2_HueSourceRestored ==
    [][(ReinitAt({"parse_hue_deg", "parse_hue"}) /\ HueSource(hue) # <<"none">>) =>
          /\ last'.ret < 0
          /\ HueSource(hue') = HueSource(hue)]_vars

(* C3. A named reinit that gives both h and H returns the incompatible     *)
(* options error and changes nothing: hue, saturation, the three texts,    *)
(* the three compiled expressions, the mode and the coefficients.          *)
C3_IncompatibleChangesNothing ==
    [][ReinitAt({"incompatible"}) =>
          /\ last'.ret = AVERROR_EINVAL
          /\ hue'.hue = hue.hue
          /\ hue'.saturation = hue.saturation
          /\ Texts(hue') = Texts(hue)
          /\ Compiled(hue') = Compiled(hue)
          /\ hue'.flat_syntax = hue.flat_syntax
          /\ Coefficients(hue') = Coefficients(hue)]_vars

(* C4. A compatibility-form reinit that fails, on its syntax or on the     *)
(* range of the saturation, returns an error and leaves hue in degrees,    *)
(* hue in radians, saturation, the mode and the coefficients unchanged.    *)
C4_FlatErrorsAreLocal ==
    [][ReinitAt({"syntax", "range"}) =>
          /\ last'.ret < 0
          /\ hue'.hue_deg = hue.hue_deg
          /\ hue'.hue = hue.hue
          /\ hue'.saturation = hue.saturation
          /\ hue'.flat_syntax = hue.flat_syntax
          /\ Coefficients(hue') = Coefficients(hue)]_vars

(* C5. In every state of a running filter saturation is in [-10,10], and   *)
(* the coefficients of the frame in flight come from such a saturation:    *)
(* neither exceeds 10 * 2^16 in magnitude.                                 *)
MaxCoefficient == SAT_MAX_VAL * 65536

CoefficientInRange(c) == -MaxCoefficient <= c /\ c <= MaxCoefficient

C5_SaturationInRange ==
    Running =>
      /\ InRange(hue.saturation)
      /\ pc = "frame" => CoefficientInRange(pic.cos) /\ CoefficientInRange(pic.sin)


(* C6. No reconfiguration in the middle of a frame: every chroma row the   *)
(* filter rotated for the frame in flight was rotated with the             *)
(* coefficients resolved when the frame started, whatever reinit commands  *)
(* arrived between its row ranges.                                         *)
C6_FrameKeepsCoefficients ==
    pc \in {"frame", "idle"} =>
      \A r \in DOMAIN pic.chroma :
         pic.chroma[r][1] = "rot" => pic.chroma[r] = <<"rot", pic.cos, pic.sin>>

(* C7. Row-range bounds: a draw_slice call for rows [y, y+h) touches only  *)
(* the luma rows [y, y+h) and the chroma rows [y >> vsub, (y+h) >> vsub),  *)
(* of width w >> hsub, and no row at or past the height of its plane.      *)
C7_RowRangeBounds ==
    pc = "frame" =>
      \A h \in 1..(inlink.h - pic.done) :
        \A r \in DrawSlice(hue, inlink, pic, pic.done, h) :
          /\ r.luma \subseteq pic.done..(pic.done + h - 1)
          /\ r.chroma \subseteq
                Shr(pic.done, hue.vsub)..(Shr(pic.done + h, hue.vsub) - 1)
          /\ r.cw = Shr(inlink.w, hue.hsub)
          /\ \A row \in r.luma : row < inlink.h
          /\ \A row \in r.chroma : row < ChromaRows(inlink.h, hue.vsub)

(* C8. Partition equivalence: a picture drawn in increasing row ranges     *)
(* ends, without a fault, with the luma and chroma planes that one         *)
(* draw_slice call over the whole picture gives.                           *)
RowKinds(plane) == [r \in DOMAIN plane |-> plane[r][1]]

C8_PartitionEquivalence ==
    /\ ~(pc = "crashed" /\ last.op = "draw_slice")
    /\ (pc = "idle" /\ last.op = "draw_slice") =>
         \A whole \in DrawSlice(hue, inlink,
                                NewPic(hue, inlink.h, ChromaRows(inlink.h, hue.vsub)),
                                0, inlink.h) :
            /\ pic.luma = whole.pic.luma
            /\ RowKinds(pic.chroma) = RowKinds(whole.pic.chroma)

(* C9. Range safety of the rotation: for 8-bit samples and coefficients of *)
(* magnitude at most 10 * 2^16, every value computed for a sample pair     *)
(* fits a signed 32-bit integer and both samples written are in [0,255].   *)
C9_RotationRangeSafe ==
    pc = "rotated" =>
      /\ pic.dst.fits
      /\ pic.dst.udst \in 0..255
      /\ pic.dst.vdst \in 0..255

\* Witness: the largest coefficients on the extreme samples, where the
\* unclipped value is far outside [0,255].
C9_Witness ==
    /\ pc = "rotated"
    /\ hue.hue_cos = MaxCoefficient /\ hue.hue_sin = -MaxCoefficient
    /\ pic.src = [usrc |-> 255, vsrc |-> 255]
    /\ pic.dst.new_u > 255

(* C10. Static mode: while flat_syntax is set, which every successful      *)
(* compatibility-form call makes it and only a successful named reinit     *)
(* ends, resolving a frame evaluates no expression and leaves hue,         *)
(* saturation and the coefficients unchanged, whatever the timestamp and   *)
(* whatever expressions are compiled.                                      *)
StaticResolvesNothing ==
    (Running /\ hue.flat_syntax = 1) =>
      \A pts \in Timestamps :
        \A r \in ResolveFrame(hue, pts) :
           /\ ~r.fault
           /\ r.evaluated = {}
           /\ r.hue = CountFrame(hue)

FlatCallMakesStatic ==
    Running =>
      \A a \in FlatArgs :
        \A r \in set_options(hue, NoFaults, a) : r.ret = 0 => r.hue.flat_syntax = 1

StaticFrameStep ==
    (last'.op = "start_frame" /\ hue.flat_syntax = 1) =>
       /\ hue'.hue = hue.hue
       /\ hue'.hue_deg = hue.hue_deg
       /\ hue'.saturation = hue.saturation
       /\ Coefficients(hue') = Coefficients(hue)
       /\ pc' = "frame" => <<pic'.cos, pic'.sin>> = Coefficients(hue)

StaticUntilNamedReinit ==
    (Running /\ hue.flat_syntax = 1 /\ hue'.flat_syntax # 1) =>
       /\ last'.op = "reinit" /\ last'.ret = 0
       /\ \E a \in FrameArgs :
            \E r \in set_options(hue, NoFaults, a) : r.ret = 0 /\ hue' = r.hue

C10_StaticMode ==
    /\ [](StaticResolvesNothing /\ FlatCallMakesStatic)
    /\ [][StaticFrameStep /\ StaticUntilNamedReinit]_vars

\* Witness: a frame resolved in static mode, after a compatibility-form
\* call, with compiled hue and saturation expressions left by earlier
\* named calls.
C10_Witness ==
    /\ pc = "frame" /\ last.op = "start_frame"
    /\ hue.flat_syntax = 1
    /\ ~IsNull(hue.hue_deg_pexpr) /\ ~IsNull(hue.hue_deg_expr)
    /\ ~IsNull(hue.saturation_pexpr) /\ ~IsNull(hue.saturation_expr)
    /\ hue.var_values.N >= 2
    /\ hue.saturation = 2

(* C11. Frame counter: config_props sets n to 0, every resolved frame,    *)
(* static or dynamic, adds exactly 1 to it after its expressions were      *)
(* evaluated (so the k-th frame sees k-1), and no other call, init or      *)
(* reinit, successful or failing, or a start_frame that fails, changes it. *)
FrameResolved == last'.op = "start_frame" /\ last'.site = "ok"

CounterStep ==
    /\ last'.op = "config_props" => hue'.var_values.N = 0
    /\ FrameResolved => hue'.var_values.N = hue.var_values.N + 1
    /\ (last'.op # "config_props" /\ ~FrameResolved) =>
          hue'.var_values.N = hue.var_values.N

\* The expressions of a frame see the counter as it was before the frame.
CounterSeen ==
    (FrameResolved /\ hue.flat_syntax = 0) =>
       /\ (~IsNull(hue.hue_deg_expr) /\ ~IsNull(hue.hue_deg_pexpr)
             /\ hue.hue_deg_pexpr.src = "90*n")
            => hue'.hue_deg = 90 * hue.var_values.N
       /\ (~IsNull(hue.saturation_expr) /\ ~IsNull(hue.saturation_pexpr)
             /\ hue.saturation_pexpr.src = "15*n-15")
            => hue'.saturation \in av_clip_saturation(15 * hue.var_values.N - 15)

C11_FrameCounter == [][CounterStep /\ CounterSeen]_vars

\* Witness: the third frame of a picture stream in dynamic mode has been
\* resolved with n = 2, and a reinit came in between.
C11_Witness ==
    /\ pc = "frame" /\ last.op = "start_frame"
    /\ hue.flat_syntax = 0
    /\ hue.var_values.N = 3
    /\ hue.hue_deg = 180
    /\ hue.saturation = SAT_MAX_VAL

(* C12. Saturation doubling: after the configuration "0:2" the            *)
(* coefficients are (131072, 0), and the raw samples (178, 128), the       *)
(* centred pair (50, 0), rotate to the centred U 100, which the clip to    *)
(* [0,255] leaves alone: the samples stored are (228, 128).                *)
DoubledPair ==
    /\ pc = "rotated"
    /\ hue.hue_deg = 0 /\ hue.saturation = 2
    /\ pic.src = [usrc |-> 178, vsrc |-> 128]

C12_SaturationDoubling ==
    DoubledPair =>
       /\ Coefficients(hue) = <<131072, 0>>
       /\ pic.dst.new_u = 228
       /\ pic.dst.udst = 228
       /\ pic.dst.vdst = 128

\* C12 as the specification words it: the U sample stored is 240.
C12_ClippedAt240 == DoubledPair => pic.dst.udst = 240

C12_Witness == DoubledPair /\ last.op = "process_chrominance"

(* C13. Identity: with the coefficients (65536, 0) every pair of 8-bit     *)
(* samples is stored within 1 of itself in each component.                 *)
Within1(a, b) == a - b \in -1..1

C13_Identity ==
    (pc = "rotated" /\ Coefficients(hue) = <<65536, 0>>) =>
       /\ Within1(pic.dst.udst, pic.src.usrc)
       /\ Within1(pic.dst.vdst, pic.src.vsrc)

\* Witness: the identity on the extreme samples.
C13_Witness ==
    /\ pc = "rotated" /\ Coefficients(hue) = <<65536, 0>>
    /\ pic.src = [usrc |-> 255, vsrc |-> 0]
    /\ pic.dst.udst = 255 /\ pic.dst.vdst = 0

(* C14. Unknown commands: a command that is not "reinit" returns          *)
(* AVERROR(ENOSYS) and changes nothing of the context, the link or the     *)
(* picture; a "reinit" command returns what set_options returns on its     *)
(* argument text and leaves the context set_options leaves.                *)
UnknownCommandStep ==
    last'.op = "command" =>
       /\ last'.ret = AVERROR_ENOSYS
       /\ hue' = hue
       /\ UNCHANGED <<inlink, pc, pic>>

ReinitIsSetOptions ==
    last'.op = "reinit" =>
       /\ \E a \in CommandArgs :
            \E r \in set_options(hue, NoFaults, a) :
               hue' = r.hue /\ last'.ret = r.ret /\ last'.site = r.site
       /\ UNCHANGED <<inlink, pc, pic>>

C14_UnknownCommands == [][UnknownCommandStep /\ ReinitIsSetOptions]_vars

\* Witness: an unknown command refused while a picture of the dynamic mode
\* is in flight.
C14_Witness ==
    /\ last = Call("command", AVERROR_ENOSYS, "enosys")
    /\ pc = "frame"
    /\ hue.flat_syntax = 0
    /\ hue.var_values.N = 2

(* C15. Coefficients are never stale: whenever the rows of a picture are  *)
(* processed, hue_cos and hue_sin are what compute_sin_and_cos gives for   *)
(* the hue and the saturation the context holds.                           *)
C15_CoefficientsNeverStale ==
    pc = "frame" =>
       Coefficients(hue) \in {Coefficients(hc) : hc \in compute_sin_and_cos(hue)}

(* C16. Single hue source: whatever calls were made, at most one of the   *)
(* texts hue_deg_expr and hue_expr is set, and a successful named call     *)
(* that gives the other unit leaves only that unit set.                    *)
BothHueTexts(h) == ~IsNull(h.hue_deg_expr) /\ ~IsNull(h.hue_expr)

C16_SingleHueSource == Running => ~BothHueTexts(hue)

(* C17. Dynamic saturation clamp: in dynamic mode with a saturation       *)
(* expression, resolving a frame evaluates the expression, never fails,    *)
(* and leaves the value itself as the saturation if it is in [-10,10],     *)
(* -10 if it is below and 10 if it is above.                               *)
Clamped(v) ==
    IF FLt(v, SAT_MIN_VAL) THEN SAT_MIN_VAL
    ELSE IF FLt(SAT_MAX_VAL, v) THEN SAT_MAX_VAL
    ELSE v

C17_DynamicSaturationClamp ==
    (pc = "idle" /\ hue.flat_syntax = 0
       /\ ~IsNull(hue.saturation_expr) /\ ~IsNull(hue.saturation_pexpr)) =>
      \A pts \in {5} :
        \A r \in ResolveFrame(hue, pts) :
           /\ ~r.fault
           /\ "saturation" \in r.evaluated
           /\ r.hue.saturation =
                Clamped(av_expr_eval(hue.saturation_pexpr,
                                     [hue.var_values EXCEPT !.T = TS2T(pts, TimeBase),
                                                            !.PTS = TS2D(pts)]))

(* C18. Partial update: a successful named call that gives neither h nor  *)
(* H leaves the hue source that was active as it was, the same unit and    *)
(* expression or the same constant hue, and the next frame resolves to the *)
(* hue it would have resolved to without the call.                         *)
\* The hue source start_frame uses: none in the static mode (line 334), else
\* the degrees expression, else the radians expression (lines 349-354).
ActiveHue(h) ==
    IF h.flat_syntax = 0 /\ ~IsNull(h.hue_deg_expr) THEN <<"h", h.hue_deg_expr.text>>
    ELSE IF h.flat_syntax = 0 /\ ~IsNull(h.hue_expr) THEN <<"H", h.hue_expr.text>>
    ELSE <<"constant", h.hue>>

\* The named texts with no hue key.
PartialArgs == {a \in FrameArgs : \A i \in DOMAIN a.opts : a.opts[i].key = "s"}

NextHues(h, pts) == {IF r.fault THEN "fault" ELSE r.hue.hue : r \in ResolveFrame(h, pts)}

C18_PartialUpdate ==
    Running =>
      \A a \in PartialArgs :
        \A r \in set_options(hue, NoFaults, a) :
           r.ret = 0 =>
             /\ ActiveHue(r.hue) = ActiveHue(hue)
             /\ \A pts \in Timestamps : NextHues(r.hue, pts) = NextHues(hue, pts)

(* C19. Text and compiled expression stay paired: whatever calls were     *)
(* made, failing ones included, every expression text that is set has a    *)
(* compiled expression, compiled from that text, so that resolving a frame *)
(* never evaluates a missing compiled expression.                          *)
Attrs == {"hue_deg", "hue", "saturation"}

Paired(h, attr) ==
    ~IsNull(h[ExprField(attr)]) =>
       /\ ~IsNull(h[PexprField(attr)])
       /\ h[PexprField(attr)].src = h[ExprField(attr)].text

C19_TextAndCompiledPaired ==
    Running =>
       /\ \A attr \in Attrs : Paired(hue, attr)
       /\ \A r \in ResolveFrame(hue, 5) : ~r.fault

(* C20. No released expression is retained: a successful named call made *)
(* while every text and compiled expression of the context is live leaves  *)
(* them all live and frees nothing twice and reads nothing freed, and      *)
(* uninit frees nothing twice.                                             *)
AllLive(h) ==
    \A f \in {"hue_deg_expr", "hue_expr", "saturation_expr",
              "hue_deg_pexpr", "hue_pexpr", "saturation_pexpr"} : ~IsDangling(h[f])

SuccessKeepsLive ==
    (pc \in {"idle", "frame"} /\ AllLive(hue)) =>
      \A a \in TeardownArgs :
        \A r \in set_options(hue, NoFaults, a) :
           r.ret = 0 => AllLive(r.hue) /\ r.mem = NoFaults

TeardownFreesOnce == last.op = "uninit" => last.site = "ok"

C20_NoReleasedExpressionRetained == SuccessKeepsLive /\ TeardownFreesOnce

=============================================================================
